---- MODULE Spec2Model ----
(***************************************************************************)
(* The PatchTransformer plugin of kustomize                                *)
(* (plugin/builtin/patchtransformer/PatchTransformer.go).                  *)
(*                                                                         *)
(* Config reads a patch either inline (Patch) or from a file (Path),       *)
(* decodes it both as a strategic merge patch and as a JSON patch 6902 and *)
(* keeps the decoding that worked.  Transform applies the kept patch to    *)
(* the resources of a ResMap, found by the patch's own id or by Target.    *)
(*                                                                         *)
(* Strings are TLA+ strings; "" is Go's empty string.  A Go pointer is a   *)
(* sequence of length at most one: <<>> is nil, <<v>> points to v.  A Go   *)
(* error is a string, "nil" when there is none.                            *)
(***************************************************************************)
EXTENDS Integers, Sequences, FiniteSets, TLC

VARIABLES
    phase,          \* "new" before Config has run on the plugin, then "configured"
    Path,           \* plugin.Path
    Patch,          \* plugin.Patch: the inline patch body, a YAML stream
    Target,         \* plugin.Target: *types.Selector
    loadedPatch,    \* plugin.loadedPatch: *resource.Resource
    decodedPatch,   \* plugin.decodedPatch: jsonpatch.Patch, a slice that may be nil
    m,              \* the ResMap handed to Transform, mutated in place
    classified,     \* history: loadedPatch as the last Config left it
    last            \* history: the last call, its inputs and what it returned

vars == <<phase, Path, Patch, Target, loadedPatch, decodedPatch, m, classified, last>>

(***************************************************************************)
(* Bounds of the model.                                                    *)
(***************************************************************************)
\* resources in the ResMap
MaxRes == 2
\* documents in the YAML stream of a patch body
MaxDocs == 2

(***************************************************************************)
(* Resources.  A resource is its group/version/kind, namespace and name    *)
(* and one field of content, spec.replicas; "" is an absent field, which   *)
(* is what the getters return for it.                                      *)
(***************************************************************************)
Res(k, ns, n, r) == [kind |-> k, namespace |-> ns, name |-> n, replicas |-> r]

Resources ==
    { Res("Deployment", "", "x", "1"),
      Res("Deployment", "ns1", "y", ""),
      Res("StatefulSet", "", "x", "1") }

\* the patch documents a body can hold; the last one declares no identity
PatchDocs ==
    { Res("Deployment", "", "x", "3"),
      Res("StatefulSet", "ns1", "z", "3"),
      Res("", "", "", "3") }

\* sequences of length n over S without repetition
RECURSIVE Injective(_, _)
Injective(S, n) ==
    IF n = 0 THEN { <<>> }
    ELSE { Append(s, x) : s \in Injective(S, n - 1), x \in S } \cap
         { s \in [1..n -> S] : \A i, j \in 1..n : s[i] = s[j] => i = j }

\* the ResMaps Transform is handed: no two resources share an id
ResMaps == UNION { Injective(Resources, n) : n \in 0..MaxRes }

(***************************************************************************)
(* JSON patch operations, over the JSON form of a resource: a function     *)
(* from the pointers of the fields present to their values.                *)
(***************************************************************************)
Op(o, p, v) == [op |-> o, path |-> p, value |-> v]

JPaths == { "/kind", "/metadata/namespace", "/metadata/name", "/spec/replicas" }

OpLists ==
    { <<>>,
      << Op("replace", "/spec/replicas", "5") >>,
      << Op("remove", "/kind", "") >>,
      << Op("add", "/spec/replicas", "5") >>,
      << Op("test", "/metadata/name", "x"), Op("add", "/spec/replicas", "5") >> }

(***************************************************************************)
(* Patch bodies.  A body is a YAML stream, a sequence of documents; the    *)
(* empty sequence is the empty string.  A document is null (or only a      *)
(* comment), malformed, a mapping, or an array of operations written       *)
(* either as a JSON literal ("[...]", flow) or in block style.             *)
(***************************************************************************)
NoDoc == Res("", "", "", "")

YDoc(t, f, o, d) == [t |-> t, flow |-> f, ops |-> o, doc |-> d]

YDocs ==
    { YDoc("null", FALSE, <<>>, NoDoc), YDoc("bad", FALSE, <<>>, NoDoc) }
    \cup { YDoc("map", FALSE, <<>>, d) : d \in PatchDocs }
    \cup { YDoc("array", f, o, NoDoc) : f \in BOOLEAN, o \in OpLists }

\* only the first byte of a body is looked at ('[' or not), so the style of
\* the documents after the first is left out
Bodies ==
    { b \in UNION { [1..n -> YDocs] : n \in 0..MaxDocs } :
        \A i \in DOMAIN b : i > 1 => ~b[i].flow }

Paths == { "", "patch.yaml" }

LoaderErrors == { "file not found", "permission denied" }

\* types.Selector: patterns on kind and name, "" matching anything; "(" is
\* a pattern that does not compile
Sel(k, n) == [kind |-> k, name |-> n]

Selectors == { Sel("Deployment", ""), Sel("Job", ""), Sel("", "(") }

Targets == { <<>> } \cup { << s >> : s \in Selectors }

(***************************************************************************)
(* The two decoders of Config.                                             *)
(***************************************************************************)
NilPatch == [nil |-> TRUE, ops |-> <<>>]

\* rf.RF().FromBytes: every document of the stream is decoded into a
\* resource, empty documents are skipped, a resource needs a kind and a
\* name, and exactly one resource must come out
FromBytes(in) ==
    LET docs == { i \in DOMAIN in : in[i].t # "null" }
        undecodable == \E i \in docs : in[i].t \in { "bad", "array" }
        invalid == \E i \in docs : in[i].doc.kind = "" \/ in[i].doc.name = ""
    IN  IF undecodable \/ invalid \/ Cardinality(docs) # 1
        THEN [err |-> "decode resource", res |-> <<>>]
        ELSE [err |-> "nil", res |-> << in[CHOOSE i \in docs : TRUE].doc >>]

\* yaml.YAMLToJSON: the first document of the stream, as JSON text
YAMLToJSON(in) ==
    IF in[1].t = "bad"
    THEN [err |-> "yaml", json |-> <<>>]
    ELSE [err |-> "nil", json |-> << [in[1] EXCEPT !.flow = (in[1].t = "array")] >>]

\* jsonpatch.DecodePatch: json.Unmarshal of the text into a slice of
\* operations; JSON null leaves the slice nil, anything after the value or
\* a value that is no array is an error
DecodePatch(json) ==
    IF Len(json) = 1 /\ json[1].t = "array"
    THEN [err |-> "nil", patch |-> [nil |-> FALSE, ops |-> json[1].ops]]
    ELSE IF Len(json) = 1 /\ json[1].t = "null"
    THEN [err |-> "nil", patch |-> NilPatch]
    ELSE [err |-> "json", patch |-> NilPatch]

jsonPatchFromBytes(in) ==
    IF in = <<>>
    THEN [err |-> "empty json patch operations", patch |-> NilPatch]
    ELSE IF ~(in[1].t = "array" /\ in[1].flow)
    THEN LET jsonOps == YAMLToJSON(in)
         IN  IF jsonOps.err # "nil"
             THEN [err |-> jsonOps.err, patch |-> NilPatch]
             ELSE DecodePatch(jsonOps.json)
    ELSE DecodePatch(in)

(***************************************************************************)
(* Config.                                                                 *)
(***************************************************************************)
\* the record of a call, before any of it is filled in
NoCall ==
    [ op |-> "none", err |-> "nil",
      validated |-> FALSE,      \* Config: the patch/path checks were passed
      asked |-> "",             \* Config: the path the loader was asked for
      ldrErr |-> "nil",         \* Config: what the loader returned
      decoded |-> FALSE,        \* Config: the two decoders were run
      in |-> <<>>,              \* Config: the bytes handed to the decoders
      errSM |-> "nil", errJson |-> "nil",
      pre |-> <<>>,             \* Transform: the ResMap before the call
      failing |-> {},           \* Transform: where the merge primitive fails
      selected |-> <<>>,        \* Transform: what Select returned
      merged |-> <<>> ]         \* Transform: the patch documents merged, in order

\* ldr.Load: the bytes of the file, or an error
LoadResults ==
    { [err |-> "nil", bytes |-> b] : b \in Bodies }
    \cup { [err |-> e, bytes |-> <<>>] : e \in LoaderErrors }

\* lines 60-78: both decoders run on the bytes; the result is the two
\* patch fields of the plugin (lp, dp before) and the error Config returns
Classify(in, lp, dp) ==
    LET sm == FromBytes(in)
        js == jsonPatchFromBytes(in)
        patchSM == sm.res
        patchJson == js.patch
    IN  IF sm.err # "nil" /\ js.err # "nil"
        THEN [err |-> "UnrecognizedPatchFormat", loadedPatch |-> lp,
              decodedPatch |-> dp, errSM |-> sm.err, errJson |-> js.err]
        ELSE \* line 74 assigns the AmbiguousPatchType error to err when both
             \* patches are non-nil, and line 78 returns nil whatever err holds
             [err |-> "nil",
              loadedPatch |->
                  IF sm.err = "nil" /\ js.err # "nil" THEN patchSM ELSE lp,
              decodedPatch |->
                  IF js.err = "nil" /\ sm.err # "nil" THEN patchJson ELSE dp,
              errSM |-> sm.err, errJson |-> js.err]

\* the first check written with "or": one source unset is already refused
ValidateOr(patch, path) ==
    IF patch = <<>> \/ path = "" THEN "MissingPatchSource"
    ELSE IF patch # <<>> /\ path # "" THEN "ConflictingPatchSource"
    ELSE "nil"

\* lines 39-48: the checks on patch and path
Validate(patch, path) ==
    IF patch = <<>> /\ path = "" THEN "MissingPatchSource"
    ELSE IF patch # <<>> /\ path # "" THEN "ConflictingPatchSource"
    ELSE "nil"

\* the error of the loader is not looked at
LoadFailedIgnored(path, ld) == FALSE

\* lines 50-55: the loader was asked and returned an error
LoadFailed(path, ld) == path # "" /\ ld.err # "nil"

\* line 35 fails: the configuration is no YAML, no field is set
ConfigUnmarshalFails ==
    /\ phase = "new"
    /\ phase' = "configured"
    /\ last' = [NoCall EXCEPT !.op = "Config", !.err = "yaml: unmarshal"]
    /\ UNCHANGED <<Path, Patch, Target, loadedPatch, decodedPatch, m, classified>>

\* lines 39-48 fail
ConfigInvalid(patch, path, target) ==
    /\ phase = "new"
    /\ Validate(patch, path) # "nil"
    /\ phase' = "configured"
    /\ Patch' = patch /\ Path' = path /\ Target' = target
    /\ last' = [NoCall EXCEPT !.op = "Config", !.err = Validate(patch, path)]
    /\ UNCHANGED <<loadedPatch, decodedPatch, m, classified>>

\* lines 49-79: the source is read and classified
ConfigResolve(patch, path, target, ld) ==
    /\ phase = "new"
    /\ Validate(patch, path) = "nil"
    /\ phase' = "configured"
    /\ Patch' = patch /\ Path' = path /\ Target' = target
    /\ LET call == [NoCall EXCEPT !.op = "Config", !.validated = TRUE,
                                  !.asked = path, !.ldrErr = ld.err]
       IN  IF LoadFailed(path, ld)
           THEN /\ last' = [call EXCEPT !.err = ld.err]
                /\ UNCHANGED <<loadedPatch, decodedPatch, classified>>
           ELSE LET in == IF patch # <<>> THEN patch ELSE ld.bytes
                    c == Classify(in, loadedPatch, decodedPatch)
                IN  /\ loadedPatch' = c.loadedPatch
                    /\ decodedPatch' = c.decodedPatch
                    /\ classified' = c.loadedPatch
                    /\ last' = [call EXCEPT !.err = c.err, !.decoded = TRUE,
                                            !.in = in, !.errSM = c.errSM,
                                            !.errJson = c.errJson]
    /\ UNCHANGED m

\* ldr.Load is not called for an inline patch
NotLoaded == [err |-> "nil", bytes |-> <<>>]

\* Config runs once, on the zero-valued plugin, before any Transform
Config ==
    /\ phase = "new"
    /\ \/ ConfigUnmarshalFails
       \/ \E patch \in Bodies, path \in Paths, target \in Targets :
              ConfigInvalid(patch, path, target)
       \/ \E patch \in Bodies \ { <<>> }, target \in Targets :
              ConfigResolve(patch, "", target, NotLoaded)
       \/ \E path \in Paths \ { "" }, target \in Targets, ld \in LoadResults :
              ConfigResolve(<<>>, path, target, ld)

(***************************************************************************)
(* What Transform calls on the ResMap and on its resources.                *)
(***************************************************************************)
OrgId(r) == << r.kind, r.namespace, r.name >>

\* m.GetById: the one resource with this id, an error when there is none or
\* more than one
GetById(mm, id) ==
    LET matches == { i \in DOMAIN mm : OrgId(mm[i]) = id }
    IN  IF Cardinality(matches) = 1
        THEN [err |-> "nil", at |-> CHOOSE i \in matches : TRUE]
        ELSE [err |-> "TargetNotFound", at |-> 0]

RECURSIVE Ascending(_)
Ascending(S) ==
    IF S = {} THEN <<>>
    ELSE LET i == CHOOSE x \in S : \A y \in S : x <= y
         IN  << i >> \o Ascending(S \ { i })

Matches(r, sel) ==
    /\ sel.kind = "" \/ sel.kind = r.kind
    /\ sel.name = "" \/ sel.name = r.name

\* m.Select: the resources the selector matches, in the order of the ResMap
\* (as their positions in it), an error when a pattern does not compile
Select(mm, sel) ==
    IF sel.kind = "(" \/ sel.name = "("
    THEN [err |-> "SelectError", resources |-> <<>>]
    ELSE [err |-> "nil",
          resources |-> Ascending({ i \in DOMAIN mm : Matches(mm[i], sel) })]

FieldOf ==
    ("/kind" :> "kind") @@ ("/metadata/namespace" :> "namespace")
    @@ ("/metadata/name" :> "name") @@ ("/spec/replicas" :> "replicas")

\* resource.MarshalJSON: the fields that are present, by pointer
MarshalJSON(r) ==
    [ p \in { q \in JPaths : r[FieldOf[q]] # "" } |-> r[FieldOf[p]] ]

\* resource.UnmarshalJSON: the content of the resource is replaced by the
\* object; an object without a kind is refused
UnmarshalJSON(obj) ==
    LET get(p) == IF p \in DOMAIN obj THEN obj[p] ELSE ""
    IN  IF "/kind" \notin DOMAIN obj
        THEN [err |-> "Object 'Kind' is missing", res |-> NoDoc]
        ELSE [err |-> "nil",
              res |-> Res(get("/kind"), get("/metadata/namespace"),
                          get("/metadata/name"), get("/spec/replicas"))]

\* one operation of a JSON patch
ApplyOp(o, obj) ==
    LET present == o.path \in DOMAIN obj
        set == [ p \in DOMAIN obj \cup { o.path } |->
                   IF p = o.path THEN o.value ELSE obj[p] ]
    IN  CASE o.op = "add" -> [err |-> "nil", obj |-> set]
          [] o.op = "replace" ->
                IF present THEN [err |-> "nil", obj |-> set]
                ELSE [err |-> "replace: missing path", obj |-> obj]
          [] o.op = "remove" ->
                IF present
                THEN [err |-> "nil", obj |-> [ p \in DOMAIN obj \ { o.path } |-> obj[p] ]]
                ELSE [err |-> "remove: missing path", obj |-> obj]
          [] o.op = "test" ->
                IF present /\ obj[o.path] = o.value THEN [err |-> "nil", obj |-> obj]
                ELSE [err |-> "test failed", obj |-> obj]

\* jsonpatch.Patch.Apply: the operations in list order, the first error ends it
RECURSIVE Apply(_, _)
Apply(ops, obj) ==
    IF ops = <<>> THEN [err |-> "nil", obj |-> obj]
    ELSE LET r == ApplyOp(Head(ops), obj)
         IN  IF r.err # "nil" THEN r ELSE Apply(Tail(ops), r.obj)

\* resource.Patch: the fields the patch document holds are merged into the
\* resource, its identity fields like any other; fails is the verdict of the
\* merge primitive, which leaves the resource alone when it fails
Merge(r, patch, fails) ==
    LET pick(f) == IF patch[f] # "" THEN patch[f] ELSE r[f]
    IN  IF fails THEN [err |-> "merge failed", res |-> r]
        ELSE [err |-> "nil",
              res |-> Res(pick("kind"), pick("namespace"), pick("name"),
                          pick("replicas"))]

SetName(r, n) == [r EXCEPT !.name = n]

SetNamespace(r, ns) == [r EXCEPT !.namespace = ns]

SetGvk(r, k) == [r EXCEPT !.kind = k]

(***************************************************************************)
(* Transform.  A run of it is the record of the ResMap, the plugin's       *)
(* loadedPatch, the patch documents merged so far and the error returned.  *)
(***************************************************************************)
Run(mm, lp, merged, err) == [m |-> mm, lp |-> lp, merged |-> merged, err |-> err]

\* the patched bytes are not read back into the resource
ApplyJsonDiscarded(run, i, dp) ==
    IF dp.nil THEN run
    ELSE LET modifiedObj == Apply(dp.ops, MarshalJSON(run.m[i]))
         IN  IF modifiedObj.err # "nil"
             THEN [run EXCEPT !.err = "failed to apply json patch"]
             ELSE run

\* lines 102-116: the JSON patch, when there is one, applied to resource i
ApplyJson(run, i, dp) ==
    IF dp.nil THEN run
    ELSE LET rawObj == MarshalJSON(run.m[i])
             modifiedObj == Apply(dp.ops, rawObj)
             back == UnmarshalJSON(modifiedObj.obj)
         IN  IF modifiedObj.err # "nil"
             THEN [run EXCEPT !.err = "failed to apply json patch"]
             ELSE IF back.err # "nil"
             THEN [run EXCEPT !.err = back.err]
             ELSE [run EXCEPT !.m[i] = back.res]

\* line 119 left out: the patch document keeps its own namespace
RestampNoNamespace(patch, r) == SetGvk(SetName(patch, r.name), r.kind)

\* lines 118-120: the plugin's patch document takes the id of the resource
Restamp(patch, r) ==
    SetGvk(SetNamespace(SetName(patch, r.name), r.namespace), r.kind)

\* lines 117-125: the strategic merge patch, when there is one, merged into
\* resource i
ApplyMerge(run, i, failing) ==
    IF run.lp = <<>> THEN run
    ELSE LET patch == Restamp(run.lp[1], run.m[i])
             r == Merge(run.m[i], patch, i \in failing)
         IN  [run EXCEPT !.lp = << patch >>,
                         !.merged = Append(@, patch),
                         !.m[i] = r.res,
                         !.err = r.err]

\* the loop goes on after a failure and returns the first error at its end
RECURSIVE LoopNoAbort(_, _, _, _)
LoopNoAbort(run, resources, dp, failing) ==
    IF resources = <<>> THEN run
    ELSE LET i == Head(resources)
             afterJson == ApplyJson(run, i, dp)
             afterMerge == ApplyMerge(afterJson, i, failing)
             step == IF afterJson.err # "nil" THEN afterJson ELSE afterMerge
             rest == LoopNoAbort([step EXCEPT !.err = "nil"], Tail(resources),
                                 dp, failing)
         IN  IF step.err # "nil" THEN [rest EXCEPT !.err = step.err] ELSE rest

\* lines 101-127: the resources selected, one after the other, until one fails
RECURSIVE Loop(_, _, _, _)
Loop(run, resources, dp, failing) ==
    IF resources = <<>> THEN run
    ELSE LET i == Head(resources)
             afterJson == ApplyJson(run, i, dp)
             afterMerge == ApplyMerge(afterJson, i, failing)
         IN  IF afterJson.err # "nil" THEN afterJson
             ELSE IF afterMerge.err # "nil" THEN afterMerge
             ELSE Loop(afterMerge, Tail(resources), dp, failing)

\* lines 82-91: a strategic merge patch without a target is merged into the
\* resource that has the id of the patch
ById(run, target, failing) ==
    IF run.lp # <<>> /\ target = <<>>
    THEN LET found == GetById(run.m, OrgId(run.lp[1]))
             r == Merge(run.m[found.at], run.lp[1], found.at \in failing)
         IN  IF found.err # "nil" THEN [run EXCEPT !.err = found.err]
             ELSE [run EXCEPT !.m[found.at] = r.res,
                              !.merged = Append(@, run.lp[1]),
                              !.err = r.err]
    ELSE run

\* lines 81-128; selected is what Select returned, <<>> when it was not called
TransformRun(mm, lp, dp, target, failing) ==
    LET byId == ById(Run(mm, lp, <<>>, "nil"), target, failing)
        sel == Select(byId.m, target[1])
    IN  IF byId.err # "nil" THEN [run |-> byId, selected |-> <<>>]
        ELSE IF target = <<>>
        THEN [run |-> [byId EXCEPT !.err = "MissingTarget"], selected |-> <<>>]
        ELSE IF sel.err # "nil"
        THEN [run |-> [byId EXCEPT !.err = sel.err], selected |-> <<>>]
        ELSE [run |-> Loop(byId, sel.resources, dp, failing),
              selected |-> sel.resources]

\* the merge primitive is consulted only when there is a strategic merge patch
MergeFailures == IF loadedPatch = <<>> THEN { {} } ELSE SUBSET DOMAIN m

Transform(failing) ==
    /\ phase = "configured"
    /\ LET t == TransformRun(m, loadedPatch, decodedPatch, Target, failing)
       IN  /\ m' = t.run.m
           /\ loadedPatch' = t.run.lp
           /\ last' = [NoCall EXCEPT !.op = "Transform", !.err = t.run.err,
                                     !.pre = m, !.failing = failing,
                                     !.selected = t.selected,
                                     !.merged = t.run.merged]
    /\ UNCHANGED <<phase, Path, Patch, Target, decodedPatch, classified>>

Init ==
    /\ phase = "new"
    /\ Path = "" /\ Patch = <<>> /\ Target = <<>>
    /\ loadedPatch = <<>> /\ decodedPatch = NilPatch
    /\ m \in ResMaps
    /\ classified = <<>>
    /\ last = NoCall

Next ==
    \/ Config
    \/ \E failing \in MergeFailures : Transform(failing)

Spec == Init /\ [][Next]_vars

(***************************************************************************)
(* Properties.  The state predicates below speak of the last call through  *)
(* the history variables last and classified.                              *)
(***************************************************************************)
ConfigReturned == last.op = "Config"

TransformReturned == last.op = "Transform"

\* the last Config ran both decoders and both succeeded
BothDecoded == ConfigReturned /\ last.decoded /\ last.errSM = "nil" /\ last.errJson = "nil"

\* C1: a body that both decoders accept makes Config fail with the
\* AmbiguousPatchType error.
C1_AmbiguousRejected == BothDecoded => last.err = "AmbiguousPatchType"

\* the positions of the ResMap before the call that have the id of the patch
IdMatches == { i \in DOMAIN last.pre : OrgId(last.pre[i]) = OrgId(classified[1]) }

\* the last Transform had a strategic merge patch, no Target, exactly one
\* resource with the id of the patch, and a merge primitive that does not fail
ScenarioA ==
    /\ TransformReturned /\ classified # <<>> /\ Target = <<>>
    /\ Cardinality(IdMatches) = 1
    /\ last.failing = {}

\* C2: a strategic merge patch without a Target, in a ResMap with exactly
\* one resource of the patch's id: Transform returns no error and that
\* resource is the result of merging the patch into it.
C2_IdentityMergeSucceeds ==
    ScenarioA =>
        /\ last.err = "nil"
        /\ \A i \in IdMatches : m[i] = Merge(last.pre[i], classified[1], FALSE).res

\* C3: after a Config that returned no error exactly one of loadedPatch and
\* decodedPatch is set, and an error of the classification is
\* AmbiguousPatchType or UnrecognizedPatchFormat.
C3_ExactlyOneVariant ==
    /\ (ConfigReturned /\ last.err = "nil") =>
           ((loadedPatch # <<>>) # (~decodedPatch.nil))
    /\ (ConfigReturned /\ last.decoded /\ last.err # "nil") =>
           last.err \in { "AmbiguousPatchType", "UnrecognizedPatchFormat" }

\* the last Config got as far as the checks on patch and path
Parsed == ConfigReturned /\ last.err # "yaml: unmarshal"

\* C4: the checks on patch and path have one of three outcomes, decided by
\* which of the two is set: none gives MissingPatchSource, both give
\* ConflictingPatchSource, and exactly one passes and is the source that is
\* resolved (the inline text is the body; the path is what the loader is
\* asked for).
C4_SourceValidation ==
    Parsed =>
        /\ (Patch = <<>> /\ Path = "") =>
               (last.err = "MissingPatchSource" /\ ~last.validated)
        /\ (Patch # <<>> /\ Path # "") =>
               (last.err = "ConflictingPatchSource" /\ ~last.validated)
        /\ ((Patch = <<>>) # (Path = "")) =>
               /\ last.validated
               /\ last.err \notin { "MissingPatchSource", "ConflictingPatchSource" }
               /\ last.asked = Path
               /\ Patch # <<>> => (last.decoded /\ last.in = Patch)
               /\ (Path # "" /\ last.ldrErr = "nil") => last.decoded

\* a Config with only path set, whose file was read and classified
C4_Witness ==
    ConfigReturned /\ Patch = <<>> /\ Path # "" /\ last.validated /\ last.decoded

\* C5: a Transform that returns MissingTarget, TargetNotFound or the error
\* of Select has changed no resource.
C5_TargetFailureNoChange ==
    (TransformReturned /\ last.err \in { "MissingTarget", "TargetNotFound", "SelectError" })
        => m = last.pre

\* what applying the plugin's patch to resource i of the ResMap before the
\* call gives, taken alone
Patched(i) ==
    LET r == last.pre[i]
        applied == Apply(decodedPatch.ops, MarshalJSON(r))
        back == UnmarshalJSON(applied.obj)
    IN  IF ~decodedPatch.nil
        THEN IF applied.err # "nil"
             THEN [err |-> "failed to apply json patch", res |-> r]
             ELSE back
        ELSE IF classified # <<>>
        THEN Merge(r, Restamp(classified[1], r), i \in last.failing)
        ELSE [err |-> "nil", res |-> r]

\* what Select gives on the ResMap before the call
Selected == Select(last.pre, Target[1])

\* the first of the selected resources the patch fails on, 0 when none
FirstFailure ==
    LET bad == { k \in DOMAIN Selected.resources :
                   Patched(Selected.resources[k]).err # "nil" }
    IN  IF bad = {} THEN 0 ELSE CHOOSE k \in bad : \A j \in bad : k <= j

\* the last Transform selected resources and the patch failed on one
FailedInLoop ==
    /\ TransformReturned /\ Target # <<>> /\ Selected.err = "nil"
    /\ FirstFailure > 0

\* C6: with a Target, the resources are processed in the order Select
\* returned them; when the patch fails on the k-th, Transform returns that
\* error, the resources before it keep their patched content and the
\* resources after it are as they were.
C6_FailureStopsLoop ==
    FailedInLoop =>
        LET sel == Selected.resources
            k == FirstFailure
        IN  /\ last.selected = sel
            /\ last.err = Patched(sel[k]).err
            /\ \A j \in 1..(k - 1) : m[sel[j]] = Patched(sel[j]).res
            /\ \A j \in (k + 1)..Len(sel) : m[sel[j]] = last.pre[sel[j]]
            /\ classified # <<>> => Len(last.merged) = k

\* the patch failed on the second selected resource after it changed the first
C6_Witness ==
    /\ FailedInLoop /\ FirstFailure = 2
    /\ m[Selected.resources[1]] # last.pre[Selected.resources[1]]
    /\ last.err # "nil"

\* the last Transform had a JSON patch and a Target, and the operations
\* apply to every selected resource
JsonApplies ==
    /\ TransformReturned /\ ~decodedPatch.nil /\ Target # <<>>
    /\ Selected.err = "nil"
    /\ \A k \in DOMAIN Selected.resources :
           Apply(decodedPatch.ops, MarshalJSON(last.pre[Selected.resources[k]])).err = "nil"

\* the result of the operations on resource i, read back as a resource
Rewritten(i) == UnmarshalJSON(Apply(decodedPatch.ops, MarshalJSON(last.pre[i])).obj)

\* Transform returned no error, every selected resource is the result of the
\* operations on its own content, and the others are as they were
JsonApplied ==
    LET sel == { Selected.resources[k] : k \in DOMAIN Selected.resources }
    IN  /\ last.err = "nil"
        /\ \A i \in sel : m[i] = Rewritten(i).res
        /\ \A i \in DOMAIN m \ sel : m[i] = last.pre[i]
        /\ DOMAIN m = DOMAIN last.pre

\* C7 as stated: a JSON patch whose operations apply to each of the N >= 0
\* selected resources: Transform returns no error, each selected resource is
\* the result of the operations on its prior content, the others are
\* unchanged.
C7_JsonPatchApplied == JsonApplies => JsonApplied

\* C7 amended: the same, for operations whose result on each selected
\* resource can be read back as a resource (it still has a kind).
C7_JsonPatchAppliedReadable ==
    (JsonApplies /\ \A k \in DOMAIN Selected.resources :
                       Rewritten(Selected.resources[k]).err = "nil")
        => JsonApplied

\* a JSON patch changed two selected resources
C7_Witness ==
    /\ JsonApplies /\ last.err = "nil"
    /\ Len(last.selected) = 2
    /\ \A k \in 1..2 : m[last.selected[k]] # last.pre[last.selected[k]]

\* the last Transform had a strategic merge patch and a Target
Broadcast == TransformReturned /\ classified # <<>> /\ Target # <<>>

\* C8: a strategic merge patch applied through a Target is given the name,
\* namespace and group/version/kind of each resource before it is merged
\* into it, and every resource keeps its own name, namespace and
\* group/version/kind.
C8_BroadcastKeepsIdentity ==
    Broadcast =>
        /\ \A i \in DOMAIN m : OrgId(m[i]) = OrgId(last.pre[i])
        /\ Len(last.merged) <= Len(last.selected)
        /\ \A k \in DOMAIN last.merged :
               OrgId(last.merged[k]) = OrgId(last.pre[last.selected[k]])

\* a patch was merged into two resources, neither of which has its id
C8_Witness ==
    /\ Broadcast /\ last.err = "nil"
    /\ Len(last.merged) = 2
    /\ \A k \in 1..2 :
           /\ OrgId(last.pre[last.selected[k]]) # OrgId(classified[1])
           /\ m[last.selected[k]] # last.pre[last.selected[k]]

\* the last Config had only path set and the loader failed
LoaderFailed == ConfigReturned /\ Patch = <<>> /\ Path # "" /\ last.ldrErr # "nil"

\* C9: when only path is set and the loader fails, Config returns the
\* loader's error, no decoder is run and both patch fields stay unset.
C9_LoaderErrorPropagates ==
    LoaderFailed =>
        /\ last.err = last.ldrErr
        /\ ~last.decoded
        /\ loadedPatch = <<>> /\ decodedPatch.nil

C9_Witness == LoaderFailed /\ last.asked = "patch.yaml" /\ last.err = "file not found"

\* C10: after any Transform the plugin's patch document is the one Config
\* classified, with the name, namespace and group/version/kind of the body.
C10_StoredPatchUntouched == TransformReturned => loadedPatch = classified

====
